---- MODULE Spec2Model ----
(***************************************************************************)
(* A model of PDFKludge (src/PDFKludge.py): the xref chain loader          *)
(* (get_xref_table), the dictionary parser and serializer (get_dict,       *)
(* dict_to_pdf) and the stream object extractor (get_stream_obj_at).       *)
(***************************************************************************)
EXTENDS Integers, Sequences, FiniteSets, TLC

VARIABLES
    file,       \* xref part of infile read so far: table offset -> table
    xref,       \* self.xref: object number -> [seek, gen, use]
    seekr,      \* self.seekr: seek point -> [obj]
    trailer,    \* self.trailer: key -> value
    stack,      \* activation records of get_xref_table, innermost last
    result,     \* outcome of the outermost get_xref_table call
    start,      \* seek_to of the outermost get_xref_table call
    din,        \* the argument of the get_dict call under way
    ps,         \* the state of the get_dict call under way
    rt,         \* a mapping, its dict_to_pdf text and what get_dict makes of it
    sx          \* the get_stream_obj_at call under way

\* what the xref loader, the dictionary parser, the serializer round trip
\* and the stream extractor leave alone
nonx == <<din, ps, rt, sx>>
nond == <<file, xref, seekr, trailer, stack, result, start, rt, sx>>
nonr == <<file, xref, seekr, trailer, stack, result, start, din, ps, sx>>
nons == <<file, stack, result, start, din, ps, rt>>
vars == <<file, xref, seekr, trailer, stack, result, start, din, ps, rt, sx>>

(***************************************************************************)
(* Bounds of the xref model.                                               *)
(***************************************************************************)
\* entries listed by one xref table
MaxEntries == 2
\* nested get_xref_table calls the interpreter allows before RuntimeError
MaxDepth == 4

\* seek points that hold an xref table; 0 holds the %PDF header instead
TableOffs == {1, 2}
\* first object numbers an xref header may name
FirstObjs == {1, 2}
\* (offset field, in-use flag) of the entry lines of the input files
LineKinds == {<<0, FALSE>>, <<10, TRUE>>, <<20, FALSE>>}
\* how far a table is well formed: "header", "entry" and "trailer" name the
\* first read that raises PDFKludgeError
Errs == {"none", "header", "entry", "trailer"}

EmptyMap == [k \in {} |-> 0]

Min(S) == CHOOSE x \in S : \A y \in S : x <= y

\* the sequences over S of length n at most
SeqsUpTo(S, n) == UNION {[1..k -> S] : k \in 0..n}

\* the entry lines a table at offset t may hold; the generation field carries t
Lines(t) == {[seek |-> k[1], gen |-> t, use |-> k[2]] : k \in LineKinds}

\* the trailer dictionaries a table at offset t may hold, as get_dict returns them
Trailers(t) ==
    {("Root" :> t)} \cup {("Root" :> t) @@ ("Prev" :> p) : p \in {0} \cup TableOffs}

\* the tables the file may hold at offset t
Tables(t) ==
    {[first |-> f, lines |-> ls, err |-> e, trailer |-> tr] :
        f \in FirstObjs, ls \in SeqsUpTo(Lines(t), MaxEntries),
        e \in Errs, tr \in Trailers(t)}

\* the count field of the table's header line: an "entry" error is one more
\* line, which does not match the entry grammar
TabSize(tbl) == Len(tbl.lines) + (IF tbl.err = "entry" THEN 1 ELSE 0)

(***************************************************************************)
(* get_xref_table                                                          *)
(***************************************************************************)
\* a retention rule that forgets the first-seen test
RetainAnyNonzero(g, obj_n, xr) == g # 0

\* line 157: the retention rule of an entry line
Retain(g, obj_n, xr) == g # 0 /\ obj_n \notin DOMAIN xr

\* lines 158-161: the entry recorded in self.xref and self.seekr
XrefPut(xr, obj_n, line) ==
    [n \in DOMAIN xr \cup {obj_n} |->
        IF n = obj_n THEN [seek |-> line.seek, gen |-> line.gen, use |-> line.use]
        ELSE xr[n]]

SeekrPut(sk, g, obj_n) ==
    [s \in DOMAIN sk \cup {g} |-> IF s = g THEN [obj |-> obj_n] ELSE sk[s]]

\* line 192: del trailer["Prev"]
DelPrev(tr) == [k \in DOMAIN tr \ {"Prev"} |-> tr[k]]

\* a store that keeps what a nested call left
StoredTrailerKeepNested(cur, own) == IF cur = EmptyMap THEN DelPrev(own) ELSE cur

\* line 194: the value self.trailer takes when a call finishes; cur is the
\* value a nested call may have left there
StoredTrailer(cur, own) == DelPrev(own)

Top == stack[Len(stack)]

Frame(seek_to) ==
    [seek_to |-> seek_to, pc |-> "header", obj_n |-> 0, count |-> 0,
     tab_size |-> 0, trailer |-> EmptyMap]

SetTop(f) == [stack EXCEPT ![Len(stack)] = f]

\* an exception leaves every active call
Raise(kind) == /\ stack' = <<>>
               /\ result' = kind

InitXref ==
    /\ file = EmptyMap
    /\ xref = EmptyMap
    /\ seekr = EmptyMap
    /\ trailer = EmptyMap
    /\ stack = <<>>
    /\ result = "idle"
    /\ start = 0
    /\ din = <<>>
    /\ ps = [pc |-> "idle", line |-> <<>>, frames |-> <<>>, value |-> <<>>, out |-> <<>>]
    /\ rt = [pc |-> "idle"]
    /\ sx = [pc |-> "idle"]

\* line 129 / a caller: the outermost get_xref_table(seek_to)
Call ==
    /\ result = "idle"
    /\ \E seek_to \in {0} \cup TableOffs :
        /\ start' = seek_to
        /\ stack' = <<Frame(seek_to)>>
    /\ result' = "running"
    /\ UNCHANGED <<file, xref, seekr, trailer>>
    /\ UNCHANGED nonx

\* lines 135-146: the "xref" line and the header line
HeaderWith(tbl) ==
    IF tbl.err = "header"
    THEN Raise("PDFKludgeError")
    ELSE /\ stack' = SetTop([Top EXCEPT !.pc = "entries", !.obj_n = tbl.first,
                                        !.count = 0, !.tab_size = TabSize(tbl)])
         /\ UNCHANGED result

ReadHeader ==
    /\ stack # <<>>
    /\ Top.pc = "header"
    /\ IF Top.seek_to \notin TableOffs
       THEN Raise("PDFKludgeError") /\ UNCHANGED file
       ELSE IF Top.seek_to \in DOMAIN file
       THEN HeaderWith(file[Top.seek_to]) /\ UNCHANGED file
       ELSE \E tbl \in Tables(Top.seek_to) :
                /\ file' = file @@ (Top.seek_to :> tbl)
                /\ HeaderWith(tbl)
    /\ UNCHANGED <<xref, seekr, trailer, start>>
    /\ UNCHANGED nonx

\* lines 149-163: one iteration of the entry loop
ReadEntry ==
    /\ stack # <<>>
    /\ Top.pc = "entries"
    /\ Top.count < Top.tab_size
    /\ LET tbl == file[Top.seek_to]
           i   == Top.count + 1
       IN  IF i > Len(tbl.lines)
           THEN Raise("PDFKludgeError") /\ UNCHANGED <<xref, seekr>>
           ELSE LET line == tbl.lines[i]
                    g    == line.seek
                IN  /\ IF Retain(g, Top.obj_n, xref)
                       THEN /\ seekr' = SeekrPut(seekr, g, Top.obj_n)
                            /\ xref' = XrefPut(xref, Top.obj_n, line)
                       ELSE UNCHANGED <<xref, seekr>>
                    /\ stack' = SetTop([Top EXCEPT !.obj_n = @ + 1, !.count = @ + 1])
                    /\ UNCHANGED result
    /\ UNCHANGED <<file, trailer, start>>
    /\ UNCHANGED nonx

\* lines 165-190: the trailer dictionary, and the nested call on its Prev
ReadTrailer ==
    /\ stack # <<>>
    /\ Top.pc = "entries"
    /\ Top.count >= Top.tab_size
    /\ LET tbl == file[Top.seek_to]
       IN  IF tbl.err = "trailer"
           THEN Raise("PDFKludgeError")
           ELSE LET me == [Top EXCEPT !.pc = "store", !.trailer = tbl.trailer]
                IN  IF "Prev" \in DOMAIN tbl.trailer
                    THEN IF Len(stack) >= MaxDepth
                         THEN Raise("RuntimeError")
                         ELSE /\ stack' = Append(SetTop(me), Frame(tbl.trailer["Prev"]))
                              /\ UNCHANGED result
                    ELSE /\ stack' = SetTop(me)
                         /\ UNCHANGED result
    /\ UNCHANGED <<file, xref, seekr, trailer, start>>
    /\ UNCHANGED nonx

\* lines 192-195: drop Prev, store the trailer, return True
StoreTrailer ==
    /\ stack # <<>>
    /\ Top.pc = "store"
    /\ trailer' = StoredTrailer(trailer, Top.trailer)
    /\ stack' = SubSeq(stack, 1, Len(stack) - 1)
    /\ result' = IF Len(stack) = 1 THEN "ok" ELSE result
    /\ UNCHANGED <<file, xref, seekr, start>>
    /\ UNCHANGED nonx

NextXref == Call \/ ReadHeader \/ ReadEntry \/ ReadTrailer \/ StoreTrailer

(***************************************************************************)
(* Text: a string is a sequence of one-character strings.  The texts of    *)
(* the model hold no line terminator, so WS is blank or tab, "." matches   *)
(* every character and "$" matches at the end of the text only.            *)
(***************************************************************************)
\* longest text handed to get_dict directly
MaxLen == 4

Alphabet == {"/", "a", "1", " ", "[", "]", "<", ">"}

Digits == <<"0", "1", "2", "3", "4", "5", "6", "7", "8", "9">>

\* line 31: WS
IsWS(c) == c \in {" ", "\t"}

\* line 32: DLM
IsDelim(c) == c \in {"<", ">", "%", "[", "]", "/"} \/ IsWS(c)

IsDigit(c) == \E i \in 1..10 : Digits[i] = c

Drop(t, n) == SubSeq(t, n + 1, Len(t))

\* WS*: the number of white space characters from index i on
RECURSIVE WSRun(_, _)
WSRun(t, i) == IF i <= Len(t) /\ IsWS(t[i]) THEN 1 + WSRun(t, i + 1) ELSE 0

NameChar(c) == ~IsDelim(c)

\* [^<>%[\]/ \t\r\n]*: the number of name characters from index i on
RECURSIVE NameRun(_, _)
NameRun(t, i) == IF i <= Len(t) /\ NameChar(t[i]) THEN 1 + NameRun(t, i + 1) ELSE 0

\* str.count of a one-character pattern
Count(t, c) == Cardinality({i \in 1..Len(t) : t[i] = c})

\* str.find of a one-character pattern, plus one: 0 when c is not in t
Find1(t, c) ==
    IF \E i \in 1..Len(t) : t[i] = c
    THEN CHOOSE i \in 1..Len(t) : t[i] = c /\ \A j \in 1..(i - 1) : t[j] # c
    ELSE 0

\* int() of an all-digit text
RECURSIVE ToInt(_)
ToInt(t) ==
    IF t = <<>> THEN 0
    ELSE 10 * ToInt(SubSeq(t, 1, Len(t) - 1))
         + (CHOOSE d \in 0..9 : Digits[d + 1] = t[Len(t)])

\* "%s" % n of a natural number n
RECURSIVE NatToText(_)
NatToText(n) ==
    IF n < 10 THEN <<Digits[n + 1]>>
    ELSE Append(NatToText(n \div 10), Digits[(n % 10) + 1])

\* "%s" % n of an integer n
IntToText(n) == IF n < 0 THEN <<"-">> \o NatToText(0 - n) ELSE NatToText(n)

(***************************************************************************)
(* Dictionary values: a tagged union of integer, opaque text and nested    *)
(* dictionary.  A dictionary is a sequence of <<name, value>> pairs, in    *)
(* insertion order (OrderedDict).                                          *)
(***************************************************************************)
IntV(n) == [t |-> "int", n |-> n, s |-> <<>>, d |-> <<>>]
StrV(s) == [t |-> "str", n |-> 0, s |-> s, d |-> <<>>]
DictV(d) == [t |-> "dict", n |-> 0, s |-> <<>>, d |-> d]

HasKey(d, k) == \E i \in 1..Len(d) : d[i][1] = k

\* a mapping that forgets insertion order: the newest key comes first
PutFront(d, k, v) ==
    <<(<<k, v>>)>> \o SelectSeq(d, LAMBDA e : e[1] # k)

\* ret[name] = v on an OrderedDict: a known key keeps its place
Put(d, k, v) ==
    IF HasKey(d, k)
    THEN [i \in 1..Len(d) |-> IF d[i][1] = k THEN <<k, v>> ELSE d[i]]
    ELSE Append(d, <<k, v>>)

(***************************************************************************)
(* get_dict                                                                *)
(***************************************************************************)
\* line 68: re.match(WS* ">>"): r.end(), or 0 when there is no match
MatchClose(t) ==
    LET p == WSRun(t, 1)
    IN  IF p + 2 <= Len(t) /\ t[p + 1] = ">" /\ t[p + 2] = ">" THEN p + 2 ELSE 0

\* the lookahead (?=/|>>|$) at index j
Lookahead(t, j) ==
    \/ j > Len(t)
    \/ t[j] = "/"
    \/ t[j] = ">" /\ j + 1 <= Len(t) /\ t[j + 1] = ">"

\* the one element of a singleton set
The(S) == CHOOSE x \in S : TRUE

NoItem == [ok |-> FALSE, name |-> <<>>, value |-> <<>>, end |-> 0]

\* (..*?) WS* (?=/|>>|$) from index vs: the index of the value's last
\* character, the end of the shortest run after which blanks lead to "/",
\* ">>" or the end of the text
ValueEnd(t, vs) ==
    Min({e \in vs..Len(t) : Lookahead(t, e + WSRun(t, e + 1) + 1)})

\* the value starts after the blanks that follow the name; when nothing
\* follows them the last blank is the value
ValueStart(t, q) ==
    The({IF q + w < Len(t) THEN q + w + 1 ELSE Len(t) : w \in {WSRun(t, q + 1)}})

ItemValue(t, p, q, vs) ==
    The({[ok |-> TRUE, name |-> SubSeq(t, p + 2, q), value |-> SubSeq(t, vs, ve),
          end |-> ve + WSRun(t, ve + 1)] : ve \in {ValueEnd(t, vs)}})

\* NAME: "/" and the longest run of regular characters, whose last index is q
ItemName(t, p, q) ==
    IF p + 1 <= Len(t) /\ t[p + 1] = "/" /\ q < Len(t)
    THEN The({ItemValue(t, p, q, vs) : vs \in {ValueStart(t, q)}})
    ELSE NoItem

ItemBlank(t, p) ==
    The({ItemName(t, p, q) : q \in {p + 1 + NameRun(t, p + 2)}})

\* line 72: re.match(WS* NAME WS* (..*?) WS* (?=/|>>|$)): the groups and
\* r.end()
MatchItem(t) == The({ItemBlank(t, p) : p \in {WSRun(t, 1)}})

\* line 83: re.match("\d+$", value)
AllDigits(v) == v # <<>> /\ \A i \in 1..Len(v) : IsDigit(v[i])

\* line 88: the test of the array loop
ArrayOpen(v) == Count(v, "]") < Count(v, "[")

\* the state of a call get_dict(text): line is the shared remaining text
\* (line[0]), frames the activations of get_dict, innermost last, each with
\* its ret and the name a nested call's result goes to
DictStart(text) ==
    [pc |-> "loop", line |-> text, frames |-> <<[ret |-> <<>>, name |-> <<>>]>>,
     value |-> <<>>, out |-> <<>>]

DictIdle ==
    [pc |-> "idle", line |-> <<>>, frames |-> <<>>, value |-> <<>>, out |-> <<>>]

\* ret[name] = v in the innermost activation
PutTop(st, v) ==
    LET k == Len(st.frames)
    IN  [st.frames EXCEPT ![k].ret = Put(@, st.frames[k].name, v)]

\* lines 71, 75, 96: return ret, to the caller's line 81 or to the user
DictReturn(st, rest) ==
    LET k   == Len(st.frames)
        ret == st.frames[k].ret
    IN  IF k = 1
        THEN [st EXCEPT !.pc = "done", !.line = rest, !.frames = <<>>, !.out = ret]
        ELSE [st EXCEPT !.line = rest,
                        !.frames = PutTop([frames |-> SubSeq(st.frames, 1, k - 1)],
                                          DictV(ret))]

\* lines 76-95: the item r is stored under its name
DictStore(st, r) ==
    LET k  == Len(st.frames)
        me == [st EXCEPT !.line = Drop(st.line, r.end), !.frames[k].name = r.name]
    IN  IF r.value = <<"<", "<">>
        THEN [me EXCEPT !.frames = Append(@, [ret |-> <<>>, name |-> <<>>])]
        ELSE IF AllDigits(r.value)
        THEN [me EXCEPT !.frames = PutTop(me, IntV(ToInt(r.value)))]
        ELSE IF r.value[1] = "[" /\ ArrayOpen(r.value)
        THEN [me EXCEPT !.pc = "array", !.value = r.value]
        ELSE [me EXCEPT !.frames = PutTop(me, StrV(r.value))]

\* lines 67-95: one iteration of the item loop, up to the array loop
DictLoop(st) ==
    IF st.line = <<>> THEN DictReturn(st, st.line)
    ELSE IF MatchClose(st.line) > 0
    THEN DictReturn(st, Drop(st.line, MatchClose(st.line)))
    ELSE The({IF r.ok THEN DictStore(st, r) ELSE DictReturn(st, st.line) :
              r \in {MatchItem(st.line)}})

\* lines 88-92: one iteration of the array loop
DictArray(st) ==
    LET n     == Find1(st.line, "]")
        value == st.value \o SubSeq(st.line, 1, n)
        me    == [st EXCEPT !.line = Drop(st.line, n)]
    IN  IF ArrayOpen(value)
        THEN [me EXCEPT !.value = value]
        ELSE [me EXCEPT !.pc = "loop", !.value = <<>>,
                        !.frames = PutTop(me, StrV(value))]

DictStep(st) == IF st.pc = "array" THEN DictArray(st) ELSE DictLoop(st)

Texts == SeqsUpTo(Alphabet, MaxLen)

InitDict ==
    /\ din \in Texts
    /\ ps = DictIdle
    /\ file = EmptyMap
    /\ xref = EmptyMap
    /\ seekr = EmptyMap
    /\ trailer = EmptyMap
    /\ stack = <<>>
    /\ result = "idle"
    /\ start = 0
    /\ rt = [pc |-> "idle"]
    /\ sx = [pc |-> "idle"]

\* get_dict(line) is called
DictCall ==
    /\ ps.pc = "idle"
    /\ ps' = DictStart(din)
    /\ UNCHANGED din
    /\ UNCHANGED nond

\* an iteration of the item loop that returns from the innermost call
\* (lines 71, 75, 96)
DictReturns ==
    /\ ps.pc = "loop"
    /\ Len(DictLoop(ps).frames) < Len(ps.frames)
    /\ ps' = DictLoop(ps)
    /\ UNCHANGED din
    /\ UNCHANGED nond

\* an iteration of the item loop that reads an item (lines 72-95)
DictItem ==
    /\ ps.pc = "loop"
    /\ Len(DictLoop(ps).frames) >= Len(ps.frames)
    /\ ps' = DictLoop(ps)
    /\ UNCHANGED din
    /\ UNCHANGED nond

\* an iteration of the array loop (lines 88-91)
DictArrayStep ==
    /\ ps.pc = "array"
    /\ ps' = DictArray(ps)
    /\ UNCHANGED din
    /\ UNCHANGED nond

NextDict == DictCall \/ DictReturns \/ DictItem \/ DictArrayStep

\* get_dict(text), run to its return: the final state, with pc "done" and
\* the result in out, or pc "hang" when the array loop makes no progress
RECURSIVE DictRun(_)
DictRun(st) ==
    IF st.pc = "done" THEN st
    ELSE The({IF nx = st THEN [st EXCEPT !.pc = "hang"] ELSE DictRun(nx) :
              nx \in {DictStep(st)}})

get_dict(text) == The({DictRun(st) : st \in {DictStart(text)}})

(***************************************************************************)
(* dict_to_pdf                                                             *)
(***************************************************************************)
\* line 109: "%s" % value
ValueText(v) == IF v.t = "int" THEN IntToText(v.n) ELSE v.s

\* lines 104-109: the items, in the mapping's order
RECURSIVE PdfItems(_)
PdfItems(d) ==
    IF d = <<>> THEN <<>>
    ELSE <<"/">> \o d[1][1] \o <<" ">> \o ValueText(d[1][2]) \o <<" ">>
         \o PdfItems(Drop(d, 1))

\* line 107 names dict_to_pdf, which is no global name: NameError
PdfRaises(d) == \E i \in 1..Len(d) : d[i][2].t = "dict"

\* lines 103-111
dict_to_pdf(d) == <<"<", "<", " ">> \o PdfItems(d) \o <<">", ">">>

\* lines 186-187: the text handed to get_dict by a caller that strips the
\* markers, group 1 of re.match("<<(.*)>>", text, re.DOTALL); dict_to_pdf
\* texts start with "<<" and end with ">>"
Inner(text) == SubSeq(text, 3, Len(text) - 2)

\* longest opaque string of a mapping
MaxStrLen == 3

Names == {<<"a">>, <<"b">>}
IntVals == {-1, 0, 7, 12}
Values == {IntV(n) : n \in IntVals} \cup {StrV(t) : t \in SeqsUpTo(Alphabet, MaxStrLen)}
SomeValues == {IntV(7), StrV(<<"a">>), StrV(<<"]">>)}

\* the flat mappings of up to two names, one of the two values taken from
\* SomeValues, and one nested mapping
Mappings ==
    {<<>>}
    \cup {<<<<k, v>>>> : k \in Names, v \in Values}
    \cup {<<<<ks[1], vs[1]>>, <<ks[2], vs[2]>>>> :
            ks \in {p \in Names \X Names : p[1] # p[2]},
            vs \in (Values \X SomeValues) \cup (SomeValues \X Values)}
    \cup {<<<<<<"a">>, DictV(<<<<<<"b">>, IntV(1)>>>>)>>>>}

InitRoundTrip ==
    /\ rt \in {[pc |-> "start", m |-> m, text |-> <<>>, strip |-> FALSE,
                end |-> "", out |-> <<>>] : m \in Mappings}
    /\ din = <<>>
    /\ ps = DictIdle
    /\ sx = [pc |-> "idle"]
    /\ file = EmptyMap
    /\ xref = EmptyMap
    /\ seekr = EmptyMap
    /\ trailer = EmptyMap
    /\ stack = <<>>
    /\ result = "idle"
    /\ start = 0

\* text = dict_to_pdf(m)
ToPdf ==
    /\ rt.pc = "start"
    /\ rt' = IF PdfRaises(rt.m)
             THEN [rt EXCEPT !.pc = "raised", !.end = "NameError"]
             ELSE [rt EXCEPT !.pc = "text", !.text = dict_to_pdf(rt.m)]
    /\ UNCHANGED nonr

Parsed(text, strip) ==
    The({[rt EXCEPT !.pc = "parsed", !.strip = strip, !.end = st.pc, !.out = st.out] :
         st \in {get_dict(text)}})

\* get_dict(text), on the text as dict_to_pdf returned it
ParseText ==
    /\ rt.pc = "text"
    /\ rt' = Parsed(rt.text, FALSE)
    /\ UNCHANGED nonr

\* get_dict on the text inside the markers, as lines 186-187 and 275 call it
ParseInner ==
    /\ rt.pc = "text"
    /\ rt' = Parsed(Inner(rt.text), TRUE)
    /\ UNCHANGED nonr

NextRoundTrip == ToPdf \/ ParseText \/ ParseInner

(***************************************************************************)
(* get_stream_obj_at.  The bytes at a seek point are described by what the *)
(* patterns of lines 226 and 279 find in them: hdr, the length of the      *)
(* object header up to the line terminator after "stream" (0 when the      *)
(* bytes hold no such header), num, the object number the header names,    *)
(* dict, the text between its << and >>, plen, the payload bytes after the *)
(* header, terminated, whether endstream EOL endobj EOL follows them, and  *)
(* tail, the bytes from there to the end of the file.  The payload holds   *)
(* no second header end and no second terminator.  A buffer is the number  *)
(* of bytes read from the seek point; data is a slice [lo, hi) of it.      *)
(***************************************************************************)
\* line 227
head_only_size == 4096

\* line 279: the length of "endstream" EOL "endobj" EOL, with one-byte EOLs
TermLen == 17

\* to_pt = None
NoTo == -1

KeyLength == <<"L", "e", "n", "g", "t", "h">>
KeyType == <<"T", "y", "p", "e">>

\* the dictionary texts of the objects of the input files: /Length 4,
\* /Length 12 0 R, /Type /XObject /Length 6000, /Type /XObject and /Length << /a 1 >>
DictTexts ==
    { <<"/">> \o KeyLength \o <<" ", "4">>,
      <<"/">> \o KeyLength \o <<" ", "1", "2", " ", "0", " ", "R">>,
      <<"/">> \o KeyType \o <<" ", "/", "X", " ", "/">> \o KeyLength \o <<" ", "6", "0", "0", "0">>,
      <<"/">> \o KeyType \o <<" ", "/", "X">>,
      <<"/">> \o KeyLength \o <<" ", "<", "<", " ", "/", "a", " ", "1", " ", ">", ">">> }

SeekPoints == {10, 5000, 13000}
FromPts == SeekPoints \cup {7}
ToPts == {NoTo, 7, 10, 11, 100, 4107, 5000, 9000, 13000}

Sources ==
    {[hdr |-> h, num |-> n, dict |-> d, plen |-> p, terminated |-> e, tail |-> t] :
        h \in {0, 30, 4500, 8500}, n \in {1, 2}, d \in DictTexts,
        p \in {4, 6000}, e \in BOOLEAN, t \in {0, 20000}}

\* the bytes from the seek point to the end of the file
Avail(src) == src.hdr + src.plen + (IF src.terminated THEN TermLen ELSE 0) + src.tail

\* where "endstream" starts, counted from the seek point
TermAt(src) == src.hdr + src.plen

\* lines 246, 256, 267: re.match(obj_stream_match, data) on a buffer of n bytes
HeaderMatches(src, n) == src.hdr > 0 /\ n >= src.hdr

\* line 279: the fallback pattern matches a buffer of n bytes
TermMatches(src, n) == src.terminated /\ n >= TermAt(src) + TermLen

\* range checks that take to_pt = from_pt for a range
StreamArgsLax(sk, from_pt, to_pt) ==
    IF from_pt \notin DOMAIN sk THEN "seek point"
    ELSE IF to_pt # NoTo /\ to_pt < from_pt THEN "range"
    ELSE "ok"

\* lines 229-240: the argument checks, in the order the code makes them
StreamArgs(sk, from_pt, to_pt) ==
    IF from_pt \notin DOMAIN sk THEN "seek point"
    ELSE IF to_pt # NoTo /\ to_pt <= from_pt THEN "range"
    ELSE "ok"

\* lines 233-236: the next key of the sorted seek index, or None
NextKey(sk, from_pt) ==
    IF \E k \in DOMAIN sk : k > from_pt
    THEN Min({k \in DOMAIN sk : k > from_pt})
    ELSE NoTo

\* file.read(n) after n0 bytes were read: the number of bytes returned
ReadLen(src, n0, n) == IF n < Avail(src) - n0 THEN n ELSE Avail(src) - n0

\* lines 246 and 256: the tests of the head-only loops
LoopTest(c) ==
    /\ ~HeaderMatches(c.src, c.data)
    /\ c.to_pt # NoTo => c.data < c.read_size

\* the index a load of a table listing the seek points sp leaves
RECURSIVE Loaded(_, _)
Loaded(sp, n) ==
    IF sp = {} THEN [xref |-> EmptyMap, seekr |-> EmptyMap]
    ELSE The({[xref  |-> XrefPut(ix.xref, n, [seek |-> Min(sp), gen |-> 0, use |-> TRUE]),
               seekr |-> SeekrPut(ix.seekr, Min(sp), n)] :
              ix \in {Loaded(sp \ {Min(sp)}, n + 1)}})

StreamIdle == [pc |-> "idle"]

InitStream ==
    /\ \E sp \in SUBSET SeekPoints :
        /\ xref = Loaded(sp, 1).xref
        /\ seekr = Loaded(sp, 1).seekr
    /\ trailer = ("Root" :> 1)
    /\ sx = [pc |-> "idle"]
    /\ file = EmptyMap
    /\ stack = <<>>
    /\ result = "ok"
    /\ start = 1
    /\ din = <<>>
    /\ ps = DictIdle
    /\ rt = [pc |-> "idle"]

NoSource ==
    [hdr |-> 0, num |-> 0, dict |-> <<>>, plen |-> 0, terminated |-> FALSE, tail |-> 0]

NoOut == [kind |-> "", meta |-> <<>>, lo |-> 0, hi |-> 0, how |-> ""]

\* the call's locals after lines 229-245; src is the bytes at from_pt
Entered(from_pt, to_arg, head_only, src) ==
    The({[pc |-> "read", from_pt |-> from_pt, to_arg |-> to_arg,
          head_only |-> head_only, src |-> src, to_pt |-> to_pt,
          read_size |-> IF to_pt = NoTo THEN 0 ELSE to_pt - from_pt - 1,
          data |-> 0, out |-> NoOut] :
         to_pt \in {IF to_arg = NoTo THEN NextKey(seekr, from_pt) ELSE to_arg}})

\* lines 229-245: the argument checks, the seek and the bounds of the read
StreamCall ==
    /\ sx.pc = "idle"
    /\ \E from_pt \in FromPts, to_arg \in ToPts, head_only \in BOOLEAN :
        IF StreamArgs(seekr, from_pt, to_arg) = "ok"
        THEN \E src \in Sources : sx' = Entered(from_pt, to_arg, head_only, src)
        ELSE sx' = [pc |-> "done", from_pt |-> from_pt, to_arg |-> to_arg,
                    head_only |-> head_only, src |-> NoSource, to_pt |-> to_arg,
                    read_size |-> 0, data |-> 0,
                    out |-> [NoOut EXCEPT !.kind = "PDFKludgeError",
                                          !.how = StreamArgs(seekr, from_pt, to_arg)]]
    /\ UNCHANGED <<xref, seekr, trailer>>
    /\ UNCHANGED nons

\* lines 246-250 and 256-262: one iteration of a head-only loop
ReadChunk ==
    /\ sx.pc = "read"
    /\ sx.head_only
    /\ LoopTest(sx)
    /\ LET want == IF sx.to_pt = NoTo THEN head_only_size
                   ELSE IF sx.read_size < head_only_size THEN sx.read_size
                   ELSE head_only_size
           new  == ReadLen(sx.src, sx.data, want)
           left == IF sx.to_pt = NoTo THEN sx.read_size
                   ELSE IF sx.read_size - new > 0 THEN sx.read_size - new ELSE 0
       IN  sx' = IF new = 0
                 THEN [sx EXCEPT !.pc = "parse", !.read_size = left]
                 ELSE [sx EXCEPT !.read_size = left, !.data = @ + new]
    /\ UNCHANGED <<xref, seekr, trailer>>
    /\ UNCHANGED nons

\* the test of a head-only loop fails
LoopExit ==
    /\ sx.pc = "read"
    /\ sx.head_only
    /\ ~LoopTest(sx)
    /\ sx' = [sx EXCEPT !.pc = "parse"]
    /\ UNCHANGED <<xref, seekr, trailer>>
    /\ UNCHANGED nons

\* lines 252 and 264: the full read
ReadAll ==
    /\ sx.pc = "read"
    /\ ~sx.head_only
    /\ sx' = [sx EXCEPT !.pc = "parse",
                        !.data = IF sx.to_pt = NoTo THEN Avail(sx.src)
                                 ELSE ReadLen(sx.src, 0, sx.read_size)]
    /\ UNCHANGED <<xref, seekr, trailer>>
    /\ UNCHANGED nons

\* lines 276-283: the payload of a buffer of n bytes holding the header
Payload(src, n, meta) ==
    IF HasKey(meta, KeyLength)
    THEN The({IF len.t = "int"
              THEN [kind |-> "obj", meta |-> meta, how |-> "Length", lo |-> src.hdr,
                    hi |-> IF src.hdr + len.n < n THEN src.hdr + len.n ELSE n]
              ELSE [kind |-> "TypeError", meta |-> meta, how |-> "Length",
                    lo |-> 0, hi |-> 0] :
              len \in {d[2] : d \in {meta[i] : i \in {j \in 1..Len(meta) : meta[j][1] = KeyLength}}}})
    ELSE IF TermMatches(src, n)
    THEN [kind |-> "obj", meta |-> meta, how |-> "scan", lo |-> 0, hi |-> TermAt(src)]
    ELSE [kind |-> "obj", meta |-> meta, how |-> "warn", lo |-> 0, hi |-> n]

\* lines 267-287: the header match, the object check, the dictionary and
\* the payload
Parse ==
    /\ sx.pc = "parse"
    /\ sx' = IF ~HeaderMatches(sx.src, sx.data)
             THEN [sx EXCEPT !.pc = "done", !.out.kind = "None", !.out.how = "no stream"]
             ELSE IF sx.src.num # seekr[sx.from_pt].obj
             THEN [sx EXCEPT !.pc = "done", !.out.kind = "None", !.out.how = "mismatch"]
             ELSE [sx EXCEPT !.pc = "done",
                             !.out = Payload(sx.src,
                                             IF sx.head_only THEN sx.src.hdr ELSE sx.data,
                                             get_dict(sx.src.dict).out)]
    /\ UNCHANGED <<xref, seekr, trailer>>
    /\ UNCHANGED nons

NextStream == StreamCall \/ ReadChunk \/ LoopExit \/ ReadAll \/ Parse

(***************************************************************************)
(* Properties of the xref chain loader                                     *)
(***************************************************************************)
\* the tables a load started at t visits, newest first, following Prev
RECURSIVE ChainFrom(_, _)
ChainFrom(t, fuel) ==
    IF fuel = 0 \/ t \notin DOMAIN file THEN <<>>
    ELSE <<t>> \o (IF "Prev" \in DOMAIN file[t].trailer
                   THEN ChainFrom(file[t].trailer["Prev"], fuel - 1)
                   ELSE <<>>)

Chain == ChainFrom(start, Cardinality(TableOffs) + 1)

\* table t lists object n with a nonzero offset
Lists(t, n) ==
    LET i == n - file[t].first + 1
    IN  i \in 1..Len(file[t].lines) /\ file[t].lines[i].seek # 0

EntryOf(t, n) ==
    LET line == file[t].lines[n - file[t].first + 1]
    IN  [seek |-> line.seek, gen |-> line.gen, use |-> line.use]

ObjNums == 0..20

\* C1: after a successful load, every object number that some table of the
\* chain lists with a nonzero offset has in xref the entry (seek, gen, use)
\* of the newest such table, and xref holds no other object number.
C1_FirstSeenWins ==
    result = "ok" =>
        \A n \in ObjNums :
            LET idx == {i \in 1..Len(Chain) : Lists(Chain[i], n)}
            IN  IF idx = {} THEN n \notin DOMAIN xref
                ELSE n \in DOMAIN xref /\ xref[n] = EntryOf(Chain[Min(idx)], n)

\* a finished load of two chained tables that list one object number with
\* different nonzero offsets
C1_Witness ==
    /\ result = "ok"
    /\ Len(Chain) = 2
    /\ \E n \in ObjNums :
        /\ Lists(Chain[1], n)
        /\ Lists(Chain[2], n)
        /\ EntryOf(Chain[1], n).seek # EntryOf(Chain[2], n).seek

\* C2 as claimed: after a successful load of two or more chained tables
\* the stored trailer is the trailer of the oldest table of the chain.
C2_OldestTrailerStored ==
    (result = "ok" /\ Len(Chain) >= 2) =>
        trailer = DelPrev(file[Chain[Len(Chain)]].trailer)

\* C2 amended: after a successful load of two or more chained tables the
\* stored trailer is the trailer of the table the load started from (the
\* newest), without its Prev key.
C2_NewestTrailerStored ==
    (result = "ok" /\ Len(Chain) >= 2) =>
        /\ trailer = DelPrev(file[start].trailer)
        /\ trailer["Root"] = start
        /\ "Prev" \notin DOMAIN trailer

\* a finished load of two chained tables, whose Roots differ
C2_Witness ==
    /\ result = "ok"
    /\ Len(Chain) = 2
    /\ file[Chain[1]].trailer["Root"] # file[Chain[2]].trailer["Root"]

\* C3: seekr and xref are one-to-one: every object number of xref is named
\* by seekr at its seek point, and every seek point of seekr is the seek
\* point xref records for the object number found there.
C3_OneToOne ==
    /\ \A n \in DOMAIN xref :
        xref[n].seek \in DOMAIN seekr /\ seekr[xref[n].seek].obj = n
    /\ \A s \in DOMAIN seekr :
        seekr[s].obj \in DOMAIN xref /\ xref[seekr[s].obj].seek = s

\* C10: a load visits no table twice, and when it ends it has returned
\* True or raised PDFKludgeError.
C10_LoadFinishes ==
    /\ Len(stack) <= Cardinality(TableOffs)
    /\ result \in {"idle", "running", "ok", "PDFKludgeError"}

(***************************************************************************)
(* Properties of get_dict and dict_to_pdf                                  *)
(***************************************************************************)
\* C9: every iteration of get_dict's loops returns from the innermost call
\* or strictly shortens the shared remaining text, so get_dict terminates.
C9_IterationProgresses ==
    ps.pc \in {"loop", "array"} =>
        \/ Len(DictStep(ps).frames) < Len(ps.frames)
        \/ Len(DictStep(ps).line) < Len(ps.line)

WellFormed(v) ==
    \/ v.t = "int" /\ v.n >= 0
    \/ /\ v.t = "str"
       /\ v.s # <<>>
       /\ ~IsWS(v.s[1])
       /\ ~IsWS(v.s[Len(v.s)])
       /\ ~AllDigits(v.s)
       /\ v.s # <<"<", "<">>
       /\ \A i \in 2..Len(v.s) :
            /\ v.s[i] # "/"
            /\ ~(v.s[i] = ">" /\ i < Len(v.s) /\ v.s[i + 1] = ">")
       /\ v.s[1] = "[" => ~ArrayOpen(v.s)

Resolved ==
    /\ sx.pc = "done"
    /\ sx.out.kind \notin {"PDFKludgeError", "None"}

HasIntLength(meta) ==
    \E i \in 1..Len(meta) : meta[i][1] = KeyLength /\ meta[i][2].t = "int"

IntLength(meta) ==
    The({meta[i][2].n : i \in {j \in 1..Len(meta) : meta[j][1] = KeyLength}})

\* C4: the payload is the Length bytes after the header match exactly when
\* the dictionary has an integer Length; in every other case the payload is
\* resolved by the scan for the terminator and the call does not fail.
C4_LengthOrScan ==
    Resolved =>
        IF HasIntLength(sx.out.meta)
        THEN /\ sx.out.kind = "obj"
             /\ sx.out.how = "Length"
             /\ sx.out.lo = sx.src.hdr
             /\ sx.out.hi - sx.out.lo <= IntLength(sx.out.meta)
        ELSE /\ sx.out.kind = "obj"
             /\ sx.out.how \in {"scan", "warn"}

\* C5: in a full call whose dictionary has no Length and whose buffer holds
\* the terminator, the data starts at the first byte after the header match
\* and ends where the terminator starts.
C5_ScanSkipsHeader ==
    (/\ Resolved
     /\ ~sx.head_only
     /\ ~HasKey(sx.out.meta, KeyLength)
     /\ TermMatches(sx.src, sx.data))
        => (sx.out.kind = "obj" /\ sx.out.lo = sx.src.hdr /\ sx.out.hi = TermAt(sx.src))

\* C6: a call with from_pt outside the seek index fails with the seek point
\* error, a call with from_pt inside it and an explicit to_pt <= from_pt
\* fails with the range error, and a failing call leaves xref, seekr and
\* trailer as they were.
C6_ArgumentErrors ==
    [][(sx.pc = "idle" /\ sx'.pc # "idle") =>
        /\ sx'.from_pt \notin DOMAIN seekr =>
            (sx'.pc = "done" /\ sx'.out.kind = "PDFKludgeError"
             /\ sx'.out.how = "seek point" /\ sx'.out.meta = <<>>)
        /\ (sx'.from_pt \in DOMAIN seekr /\ sx'.to_arg # NoTo
            /\ sx'.to_arg <= sx'.from_pt) =>
            (sx'.pc = "done" /\ sx'.out.kind = "PDFKludgeError"
             /\ sx'.out.how = "range" /\ sx'.out.meta = <<>>)
        /\ sx'.out.kind = "PDFKludgeError" =>
            (xref' = xref /\ seekr' = seekr /\ trailer' = trailer)]_vars

\* a call on a known seek point with to_pt = from_pt has failed
C6_Witness ==
    /\ sx.pc = "done"
    /\ sx.from_pt \in DOMAIN seekr
    /\ sx.to_arg = sx.from_pt
    /\ sx.out.kind = "PDFKludgeError"
    /\ sx.out.how = "range"
    /\ Cardinality(DOMAIN seekr) >= 2

\* the bounded size of a call with to_pt known
BoundedSize == sx.to_pt - sx.from_pt - 1

\* C8: in a bounded head-only call on a source that holds the bounded size
\* at least, the loop ends only with the header matched or with the bounded
\* size read, never reads more, and finds a header that lies within the
\* bounded size.
C8_BoundedHeadLoop ==
    (/\ sx.pc = "parse"
     /\ sx.head_only
     /\ sx.to_pt # NoTo
     /\ Avail(sx.src) >= BoundedSize)
        => /\ HeaderMatches(sx.src, sx.data) \/ sx.data = BoundedSize
           /\ sx.data <= BoundedSize
           /\ (sx.src.hdr > 0 /\ sx.src.hdr <= BoundedSize)
                => HeaderMatches(sx.src, sx.data)

(***************************************************************************)
(* Specifications                                                          *)
(***************************************************************************)
SpecXref == InitXref /\ [][NextXref]_vars

SpecDict == InitDict /\ [][NextDict]_vars

SpecRoundTrip == InitRoundTrip /\ [][NextRoundTrip]_vars

SpecStream == InitStream /\ [][NextStream]_vars

====
